---- MODULE Spec2Model ----
\* Verification model of storage_scrubber/src/checks.rs: the tenant-wide
\* object index (TenantObjectListing) and the layer map validator
\* (check_valid_layermap).
EXTENDS Integers, Sequences, FiniteSets, Bags, TLC

\* ---------------------------------------------------------------------------
\* Bounds of the model
\* ---------------------------------------------------------------------------
\* Largest number of objects in the listing of one timeline prefix.
MaxObjects == 3
\* Largest number of layers in the layer map of an analysed manifest.
MaxManifestLayers == 2
\* Longest sequence of calls made on one TenantObjectListing.
MaxCalls == 4
\* Largest number of layer objects in one shard-timeline listing.
MaxListing == 2
\* Largest number of entries of one manifest layer map.
MaxLayers == 3

\* ---------------------------------------------------------------------------
\* Values
\* ---------------------------------------------------------------------------
Keys == 0 .. 3
Lsns == 0 .. 3

\* Key::next(): the key that follows k.
KeyNext(k) == k + 1

\* Range<Key> and Range<Lsn>, half open and non-empty, as [start, end] records.
KeyRanges == {r \in [start : Keys, end : Keys] : r.start < r.end}
LsnRanges == {r \in [start : Lsns, end : Lsns] : r.start < r.end}

\* LayerName::Delta(DeltaLayerName {key_range, lsn_range}).
DeltaLayerNames == [kind : {"Delta"}, key_range : KeyRanges, lsn_range : LsnRanges]
\* LayerName::Image(ImageLayerName {key_range, lsn}); the lsn is kept as the
\* one-point range lsn..lsn so that every LayerName has the same fields.
ImageLayerNames == {[kind |-> "Image", key_range |-> kr, lsn_range |-> [start |-> l, end |-> l]] : kr \in KeyRanges, l \in {0}}
LayerName == DeltaLayerNames \cup ImageLayerNames

\* Generation: none, or a valid generation number 1, 2, ...
GenerationNone == 0
Generation == {GenerationNone} \cup {1}

\* ShardIndex {shard_number, shard_count}.
ShardIndex == {[shard_number |-> n, shard_count |-> 2] : n \in {0, 1}}
TimelineId == {"t1", "t2"}

\* TenantShardTimelineId; a single tenant is modelled.
TenantShardTimelineId == [shard_number : {0, 1}, shard_count : {2}, timeline_id : TimelineId]

\* The layer names of the index model: one delta layer and one image layer.
ListedLayerNames == {l \in LayerName : l.key_range = [start |-> 0, end |-> 3] /\ l.lsn_range.start = 0 /\ l.lsn_range.end <= 1}
LayerKey == ListedLayerNames \X Generation
\* The layer objects that exist in the bucket: the delta layer under both
\* generations, the image layer without a generation. Manifests may also name
\* the image layer under generation 1, which no listing ever contains.
ListedObjects == {k \in LayerKey : k[1].kind = "Delta" \/ k[2] = GenerationNone}
Listings == {ls \in SUBSET ListedObjects : Cardinality(ls) <= MaxListing}

\* LayerFileMetadata, the fields check_ref reads.
LayerFileMetadata == [shard : ShardIndex, generation : Generation]

\* The sequences that enumerate the finite set S once each.
RECURSIVE Enumerations(_)
Enumerations(S) == IF S = {} THEN {<<>>} ELSE UNION {{<<x>> \o s : s \in Enumerations(S \ {x})} : x \in S}

VARIABLES shard_timelines, panicked, call, check_ref_ret, orphans_ret, ncalls, pushed, marked, phase, metadata, all_delta_layers, result, lm_pc, listing, blobs, trace, an

index_vars == <<shard_timelines, panicked, call, check_ref_ret, orphans_ret, ncalls, pushed, marked, phase>>
layermap_vars == <<metadata, all_delta_layers, result, lm_pc>>
scrub_vars == <<listing, blobs, trace, an>>
vars == <<shard_timelines, panicked, call, check_ref_ret, orphans_ret, ncalls, pushed, marked, phase, metadata, all_delta_layers, result, lm_pc, listing, blobs, trace, an>>

\* ---------------------------------------------------------------------------
\* Values of list_timeline_blobs and branch_cleanup_and_check_errors
\* ---------------------------------------------------------------------------
\* A listed object, by the parts of its key that the code looks at: whether
\* the key starts with the timeline prefix, and the blob name after it as
\* stem and suffix. The suffix is "none", "gen" (`-` and the 8 hex digits of
\* generation gen), "bad" (`-` and 8 characters that are no hex number) or
\* "ext" (any other tail).
ListingObject(prefix_ok, stem, layer, suffix, gen) == [prefix_ok |-> prefix_ok, stem |-> stem, layer |-> layer, suffix |-> suffix, gen |-> gen]
IndexObjects == {ListingObject(TRUE, "index_part.json", <<>>, "none", GenerationNone), ListingObject(TRUE, "index_part.json", <<>>, "ext", GenerationNone)} \cup {ListingObject(TRUE, "index_part.json", <<>>, "gen", g) : g \in {1, 2}}
MarkerObjects == {ListingObject(TRUE, "initdb.tar.zst", <<>>, "none", GenerationNone), ListingObject(TRUE, "initdb-preserved.tar.zst", <<>>, "none", GenerationNone)}
LayerObjects == {ListingObject(TRUE, "layer", <<l>>, "none", GenerationNone) : l \in {n \in ListedLayerNames : n.kind = "Delta"}} \cup {ListingObject(TRUE, "layer", <<l>>, "gen", 1) : l \in {n \in ListedLayerNames : n.kind = "Delta"}}
UnknownObjects == {ListingObject(TRUE, "layer", <<l>>, "bad", GenerationNone) : l \in {n \in ListedLayerNames : n.kind = "Delta"}} \cup {ListingObject(TRUE, "junk", <<>>, "none", GenerationNone), ListingObject(FALSE, "junk", <<>>, "none", GenerationNone)}
BucketObjects == IndexObjects \cup MarkerObjects \cup LayerObjects \cup UnknownObjects
BucketListings == {ls \in SUBSET BucketObjects : Cardinality(ls) <= MaxObjects}

\* A message pushed onto an error or warning vector, kept as the format
\* string's name and the values formatted into it.
Message(msg, key, layer, md) == [prefix |-> "", msg |-> msg, key |-> key, layer |-> layer, md |-> md]
KeyMessage(msg, obj) == Message(msg, <<obj>>, <<>>, <<>>)
PlainMessage(msg) == Message(msg, <<>>, <<>>, <<>>)

\* IndexPart, the fields the checks read.
IndexPartVersions == {1, 2}
\* IndexPart::KNOWN_VERSIONS.
KNOWN_VERSIONS == {1}
ManifestLayerMetadata == [file_size : {0, 1}, shard : ShardIndex, generation : Generation]
\* The layer names a manifest of the model may reference.
ManifestLayerNames == ListedLayerNames \cup {l \in DeltaLayerNames : l.key_range = [start |-> 0, end |-> 2] /\ l.lsn_range = [start |-> 0, end |-> 2]}
LayerMetadataMaps == UNION {[names -> ManifestLayerMetadata] : names \in {ns \in SUBSET ManifestLayerNames : Cardinality(ns) <= MaxManifestLayers}}
IndexPart == [version : IndexPartVersions, disk_consistent_lsn : {1}, duplicated_disk_consistent_lsn : {0, 1}, ancestor_timeline : {<<>>, <<"t2">>}, layer_metadata : LayerMetadataMaps]
\* A manifest whose header passes every check: known version, equal
\* disk_consistent_lsn fields, no ancestor.
PlainHeader(ip) == ip.version \in KNOWN_VERSIONS /\ ip.disk_consistent_lsn = ip.duplicated_disk_consistent_lsn /\ ip.ancestor_timeline = <<>>
\* The manifests given to the analysis: every header with at most one layer,
\* the plain header with every layer map.
AnalysedIndexParts == {ip \in IndexPart : PlainHeader(ip) \/ Cardinality(DOMAIN ip.layer_metadata) <= 1}
\* The manifests the bucket objects of the listing model hold: the plain
\* header with no layer, or with the listed delta layer under generation 1.
ListedIndexParts == {ip \in IndexPart : PlainHeader(ip) /\ \A l \in DOMAIN ip.layer_metadata : l \in ListedLayerNames /\ l.kind = "Delta" /\ ip.layer_metadata[l] = [file_size |-> 1, shard |-> [shard_number |-> 0, shard_count |-> 2], generation |-> 1]}

\* BlobDataParseResult.
BlobData(tag, index_part, generation, s3_layers, errors) == [tag |-> tag, index_part |-> index_part, index_part_generation |-> generation, s3_layers |-> s3_layers, errors |-> errors]
Parsed(index_part, generation, s3_layers) == BlobData("Parsed", <<index_part>>, generation, s3_layers, <<>>)
Relic == BlobData("Relic", <<>>, GenerationNone, {}, <<>>)
Incorrect(errors, s3_layers) == BlobData("Incorrect", <<>>, GenerationNone, s3_layers, errors)

\* RemoteTimelineBlobData.
RemoteTimelineBlobData(blob_data, unused_index_keys, unknown_keys) == [blob_data |-> blob_data, unused_index_keys |-> unused_index_keys, unknown_keys |-> unknown_keys]

\* anyhow::Result<RemoteTimelineBlobData>: not returned yet, Err, or Ok(data).
NoResult == [ret |-> "none", data |-> RemoteTimelineBlobData(Relic, <<>>, <<>>)]
ErrResult == [ret |-> "Err", data |-> RemoteTimelineBlobData(Relic, <<>>, <<>>)]
OkResult(data) == [ret |-> "Ok", data |-> data]

\* What list_timeline_blobs did on the way: the manifest candidates in
\* listing order, the candidate it selected, the objects it downloaded.
NoTrace == [index_part_keys |-> <<>>, selected |-> <<>>, downloaded |-> {}, body |-> "none"]

\* The analyses of a tenant's timelines that run side by side.
Procs == {1, 2}

\* One call of branch_cleanup_and_check_errors: its position, its arguments,
\* the layers of the manifest the loop has not visited yet, the
\* TimelineAnalysis it builds, and the check_ref and head_object calls made.
AnIdle == [pc |-> "idle", id |-> [shard_number |-> 0, shard_count |-> 2, timeline_id |-> "t1"], s3_active_branch |-> FALSE, console_branch |-> FALSE, s3_data |-> <<>>, todo |-> {}, errors |-> <<>>, warnings |-> <<>>, garbage_keys |-> <<>>, checked |-> {}, probed |-> {}]

ScrubIdle == /\ listing = <<>>
             /\ blobs = NoResult
             /\ trace = NoTrace
             /\ an = [p \in Procs |-> AnIdle]

\* ---------------------------------------------------------------------------
\* list_timeline_blobs
\* ---------------------------------------------------------------------------
\* The match arm `Some(name) if name.starts_with("index_part.json")`.
IsIndexKey(obj) == obj.prefix_ok /\ obj.stem = "index_part.json"
IsInitdbArchive(obj) == obj.prefix_ok /\ obj.stem = "initdb.tar.zst" /\ obj.suffix = "none"
IsInitdbPreserved(obj) == obj.prefix_ok /\ obj.stem = "initdb-preserved.tar.zst" /\ obj.suffix = "none"

\* parse_layer_object_name: Ok((layer, generation)) or Err. A name whose last
\* `-` segment has 8 characters is split into layer name and generation
\* suffix, any other name is parsed whole as a layer name.
ParseLayerObjectName(obj) ==
    IF obj.suffix \in {"gen", "bad"}
    THEN IF obj.stem # "layer" THEN [ok |-> FALSE, layer |-> <<>>, generation |-> GenerationNone]
         ELSE IF obj.suffix = "bad" THEN [ok |-> FALSE, layer |-> <<>>, generation |-> GenerationNone]
         ELSE [ok |-> TRUE, layer |-> obj.layer, generation |-> obj.gen]
    ELSE IF obj.stem = "layer" /\ obj.suffix = "none" THEN [ok |-> TRUE, layer |-> obj.layer, generation |-> GenerationNone]
         ELSE [ok |-> FALSE, layer |-> <<>>, generation |-> GenerationNone]

\* The objects of the last two match arms that end in unknown_keys.
IsLayerCandidate(obj) == obj.prefix_ok /\ ~IsIndexKey(obj) /\ ~IsInitdbArchive(obj) /\ ~IsInitdbPreserved(obj)
IsUnknownKey(obj) == ~obj.prefix_ok \/ (IsLayerCandidate(obj) /\ ~ParseLayerObjectName(obj).ok)

\* The error pushed for an object of the last two match arms.
UnknownKeyError(obj) == IF obj.prefix_ok THEN KeyMessage("S3 list response got an object with key that is not a layer name", obj) ELSE KeyMessage("S3 list response got an object with odd key", obj)

\* The set s3_layers after the listing loop.
S3Layers(objs) == {<<ParseLayerObjectName(o).layer[1], ParseLayerObjectName(o).generation>> : o \in {x \in objs : IsLayerCandidate(x) /\ ParseLayerObjectName(x).ok}}

\* parse_remote_index_path: the generation in the name of a manifest object,
\* if it has one.
ParseRemoteIndexPath(obj) == IF obj.suffix = "gen" THEN <<obj.gen>> ELSE <<>>

\* Mutant: the first candidate whose name has a generation is taken.
MaxByGenerationFirst(keys) ==
    LET with_gen == {i \in DOMAIN keys : ParseRemoteIndexPath(keys[i]) # <<>>}
    IN IF with_gen = {} THEN 0 ELSE CHOOSE i \in with_gen : \A j \in with_gen : i <= j

\* `.filter_map(..).max_by_key(|i| i.1)`: the position in index_part_keys of
\* the last candidate with the largest generation, among those whose name
\* has a generation; 0 if none has.
MaxByGeneration(keys) ==
    LET with_gen == {i \in DOMAIN keys : ParseRemoteIndexPath(keys[i]) # <<>>}
        best == {i \in with_gen : \A j \in with_gen : ParseRemoteIndexPath(keys[j])[1] <= ParseRemoteIndexPath(keys[i])[1]}
    IN IF with_gen = {} THEN 0 ELSE CHOOSE i \in best : \A j \in best : j <= i

\* (index_part_object, index_part_generation) as lines 453-470 choose them.
SelectIndexPart(keys) ==
    IF MaxByGeneration(keys) # 0 THEN [object |-> <<keys[MaxByGeneration(keys)]>>, generation |-> ParseRemoteIndexPath(keys[MaxByGeneration(keys)])[1]]
    ELSE IF keys = <<>> THEN [object |-> <<>>, generation |-> GenerationNone]
    ELSE [object |-> <<keys[Len(keys)]>>, generation |-> GenerationNone]

\* index_part_keys after the selection: pop() removed the last key in the
\* legacy case, retain() removes the selected key.
UnusedIndexKeys(keys) == SelectSeq(keys, LAMBDA k : <<k>> # SelectIndexPart(keys).object)

\* What download_object_with_retries and serde_json::from_slice can give for
\* the selected manifest object.
DownloadOutcomes == {[kind |-> "download_error", index_part |-> <<>>], [kind |-> "parse_error", index_part |-> <<>>]} \cup {[kind |-> "parsed", index_part |-> <<ip>>] : ip \in ListedIndexParts}

\* Mutant: the errors of the listing loop are returned as they are.
IncorrectErrorsAsCollected(errors, selected, outcome) == errors

\* The errors of an Incorrect result (lines 472-507), from the errors of the
\* listing loop.
IncorrectErrors(errors, selected, outcome) ==
    LET errors2 == IF selected.object = <<>> THEN Append(errors, PlainMessage("S3 list response got no index_part.json file")) ELSE errors
        errors3 == IF selected.object # <<>> /\ outcome.kind = "parse_error" THEN Append(errors2, PlainMessage("index_part.json body parsing error")) ELSE errors2
    IN IF errors3 = <<>> THEN <<PlainMessage("Unexpected: no errors did not lead to a successfully parsed blob return")>> ELSE errors3

\* The value list_timeline_blobs returns when the listing stream yields the
\* objects in the order `stream` and the download gives `outcome`.
ListTimelineBlobsResult(stream, outcome) ==
    LET objs == {stream[i] : i \in DOMAIN stream}
        index_part_keys == SelectSeq(stream, IsIndexKey)
        initdb_archive == \E o \in objs : IsInitdbArchive(o)
        s3_layers == S3Layers(objs)
        unknown_keys == SelectSeq(stream, IsUnknownKey)
        errors == [i \in DOMAIN unknown_keys |-> UnknownKeyError(unknown_keys[i])]
        selected == SelectIndexPart(index_part_keys)
        unused == UnusedIndexKeys(index_part_keys)
    IN IF index_part_keys = <<>> /\ s3_layers = {} /\ initdb_archive
       THEN OkResult(RemoteTimelineBlobData(Relic, index_part_keys, <<>>))
       ELSE IF selected.object # <<>> /\ outcome.kind = "download_error" THEN ErrResult
       ELSE IF selected.object # <<>> /\ outcome.kind = "parsed"
       THEN OkResult(RemoteTimelineBlobData(Parsed(outcome.index_part[1], selected.generation, s3_layers), unused, unknown_keys))
       ELSE OkResult(RemoteTimelineBlobData(Incorrect(IncorrectErrors(errors, selected, outcome), s3_layers), unused, unknown_keys))

\* The trace of the same call; `body` is what became of the downloaded
\* manifest body, "none" when nothing was downloaded.
ListTimelineBlobsTrace(stream, outcome) ==
    LET objs == {stream[i] : i \in DOMAIN stream}
        index_part_keys == SelectSeq(stream, IsIndexKey)
        relic == index_part_keys = <<>> /\ S3Layers(objs) = {} /\ \E o \in objs : IsInitdbArchive(o)
        selected == IF relic THEN <<>> ELSE SelectIndexPart(index_part_keys).object
    IN [index_part_keys |-> index_part_keys,
        selected |-> selected,
        downloaded |-> {selected[i] : i \in DOMAIN selected},
        body |-> IF selected = <<>> THEN "none" ELSE outcome.kind]

\* ---------------------------------------------------------------------------
\* TenantObjectListing
\* ---------------------------------------------------------------------------
\* LayerRef::default().
LayerRefDefault == [ref_count |-> 0]

\* ShardIndex::new(shard_number, shard_count).
ShardIndexNew(number, count) == [shard_number |-> number, shard_count |-> count]

\* HashMap::insert: the map with key k bound to v, replacing any old value.
MapInsert(m, k, v) == [x \in DOMAIN m \cup {k} |-> IF x = k THEN v ELSE m[x]]

\* The index after TenantObjectListing::push(ttid, layers) has run its insert.
PushInsert(st, ttid, layers) == MapInsert(st, <<ShardIndexNew(ttid.shard_number, ttid.shard_count), ttid.timeline_id>>, [l \in layers |-> LayerRefDefault])

\* Mutant: the assertion only notices a replaced sub-map that had entries.
PushReplacedNonEmpty(st, ttid) == /\ <<ShardIndexNew(ttid.shard_number, ttid.shard_count), ttid.timeline_id>> \in DOMAIN st
                                  /\ DOMAIN st[<<ShardIndexNew(ttid.shard_number, ttid.shard_count), ttid.timeline_id>>] # {}

\* The value `replaced` of push: whether insert found an old sub-map.
PushReplaced(st, ttid) == <<ShardIndexNew(ttid.shard_number, ttid.shard_count), ttid.timeline_id>> \in DOMAIN st

\* The return value of TenantObjectListing::check_ref.
CheckRefFound(st, timeline_id, layer_file, md) == /\ <<md.shard, timeline_id>> \in DOMAIN st
                                                  /\ <<layer_file, md.generation>> \in DOMAIN st[<<md.shard, timeline_id>>]

\* Mutant: the entry is counted in the sub-map of every timeline of the shard.
CheckRefUpdateAnyTimeline(st, timeline_id, layer_file, md) == IF CheckRefFound(st, timeline_id, layer_file, md) THEN [k \in DOMAIN st |-> IF k[1] = md.shard /\ <<layer_file, md.generation>> \in DOMAIN st[k] THEN [st[k] EXCEPT ![<<layer_file, md.generation>>].ref_count = @ + 1] ELSE st[k]] ELSE st

\* Mutant: the count records that the entry is referenced, not how often.
CheckRefUpdateFlag(st, timeline_id, layer_file, md) == IF CheckRefFound(st, timeline_id, layer_file, md) THEN [st EXCEPT ![<<md.shard, timeline_id>>][<<layer_file, md.generation>>].ref_count = 1] ELSE st

\* Mutant: the count of every generation of the layer is incremented.
CheckRefUpdateAnyGeneration(st, timeline_id, layer_file, md) == IF CheckRefFound(st, timeline_id, layer_file, md) THEN [st EXCEPT ![<<md.shard, timeline_id>>] = [k \in DOMAIN @ |-> IF k[1] = layer_file THEN [ref_count |-> @[k].ref_count + 1] ELSE @[k]]] ELSE st

\* Mutant: a missing entry of an existing sub-map is created on lookup.
CheckRefUpdateOrInsert(st, timeline_id, layer_file, md) == IF <<md.shard, timeline_id>> \notin DOMAIN st THEN st ELSE IF CheckRefFound(st, timeline_id, layer_file, md) THEN [st EXCEPT ![<<md.shard, timeline_id>>][<<layer_file, md.generation>>].ref_count = @ + 1] ELSE [st EXCEPT ![<<md.shard, timeline_id>>] = MapInsert(@, <<layer_file, md.generation>>, LayerRefDefault)]

\* Mutant: a found entry is taken out of its sub-map.
CheckRefUpdateRemove(st, timeline_id, layer_file, md) == IF CheckRefFound(st, timeline_id, layer_file, md) THEN [st EXCEPT ![<<md.shard, timeline_id>>] = [k \in DOMAIN @ \ {<<layer_file, md.generation>>} |-> @[k]]] ELSE st

\* The index after TenantObjectListing::check_ref.
CheckRefUpdate(st, timeline_id, layer_file, md) == IF CheckRefFound(st, timeline_id, layer_file, md) THEN [st EXCEPT ![<<md.shard, timeline_id>>][<<layer_file, md.generation>>].ref_count = @ + 1] ELSE st

\* Mutant: entries referenced once are reported as well.
GetOrphansResultAtMostOne(st) == [e \in UNION {{<<k[1], k[2], l[1], l[2]>> : l \in {x \in DOMAIN st[k] : st[k][x].ref_count <= 1}} : k \in DOMAIN st} |-> 1]

\* The vector TenantObjectListing::get_orphans returns. Its order is the
\* iteration order of the two hash maps, which is unspecified, so the vector
\* is kept up to order: the bag of the entries pushed onto it.
GetOrphansResult(st) == [e \in UNION {{<<k[1], k[2], l[1], l[2]>> : l \in {x \in DOMAIN st[k] : st[k][x].ref_count = 0}} : k \in DOMAIN st} |-> 1]

\* Mutant: the orphans are drained from the index as they are reported.
IndexAfterGetOrphansDrain(st) == [k \in DOMAIN st |-> [l \in {x \in DOMAIN st[k] : st[k][x].ref_count # 0} |-> st[k][l]]]

\* The index after TenantObjectListing::get_orphans, which takes &self and
\* only reads.
IndexAfterGetOrphans(st) == st

\* The call record of the last call made on the index; prev_op is the
\* operation of the call before it.
NoCall == [op |-> "none", prev_op |-> "none", shard |-> ShardIndexNew(0, 2), timeline_id |-> "t1", layers |-> {}, layer |-> CHOOSE l \in ListedLayerNames : TRUE, generation |-> GenerationNone]

\* History of the run: `pushed` holds every push call made, `marked` every
\* entry for which check_ref returned true, `phase` whether a push came after
\* a check_ref call.
PushedEntries == UNION {{<<p.shard, p.timeline_id, l[1], l[2]>> : l \in p.layers} : p \in pushed}
PushedShardTimelines == {<<p.shard, p.timeline_id>> : p \in pushed}

\* The index as TenantObjectListing::default() builds it, no call made.
IndexEmpty == /\ shard_timelines = <<>>
              /\ panicked = FALSE
              /\ call = NoCall
              /\ check_ref_ret = FALSE
              /\ orphans_ret = <<>>
              /\ ncalls = 0
              /\ pushed = {}
              /\ marked = {}
              /\ phase = "listing"

LayerMapIdle == /\ metadata = {}
                /\ all_delta_layers = <<>>
                /\ result = [some |-> FALSE, layer |-> <<>>, intersects |-> {}]
                /\ lm_pc = "idle"

IndexInit == IndexEmpty /\ LayerMapIdle /\ ScrubIdle

\* TenantObjectListing::push. The insert runs first; the assertion then fails
\* when the insert replaced a sub-map.
Push == /\ ~panicked
        /\ ncalls < MaxCalls
        /\ \E ttid \in TenantShardTimelineId, layers \in Listings :
             /\ shard_timelines' = PushInsert(shard_timelines, ttid, layers)
             /\ panicked' = PushReplaced(shard_timelines, ttid)
             /\ call' = [NoCall EXCEPT !.op = "push", !.prev_op = call.op, !.shard = ShardIndexNew(ttid.shard_number, ttid.shard_count), !.timeline_id = ttid.timeline_id, !.layers = layers]
             /\ pushed' = pushed \cup {[shard |-> ShardIndexNew(ttid.shard_number, ttid.shard_count), timeline_id |-> ttid.timeline_id, layers |-> layers]}
        /\ ncalls' = ncalls + 1
        /\ check_ref_ret' = FALSE
        /\ orphans_ret' = <<>>
        /\ phase' = IF phase = "listing" THEN "listing" ELSE "mixed"
        /\ UNCHANGED <<marked, layermap_vars, scrub_vars>>

\* TenantObjectListing::check_ref.
CheckRef == /\ ~panicked
            /\ ncalls < MaxCalls
            /\ \E timeline_id \in TimelineId, layer_file \in ListedLayerNames, md \in LayerFileMetadata :
                 /\ check_ref_ret' = CheckRefFound(shard_timelines, timeline_id, layer_file, md)
                 /\ shard_timelines' = CheckRefUpdate(shard_timelines, timeline_id, layer_file, md)
                 /\ call' = [NoCall EXCEPT !.op = "check_ref", !.prev_op = call.op, !.shard = md.shard, !.timeline_id = timeline_id, !.layer = layer_file, !.generation = md.generation]
                 /\ marked' = IF CheckRefFound(shard_timelines, timeline_id, layer_file, md) THEN marked \cup {<<md.shard, timeline_id, layer_file, md.generation>>} ELSE marked
            /\ ncalls' = ncalls + 1
            /\ orphans_ret' = <<>>
            /\ phase' = IF phase = "listing" THEN "checking" ELSE phase
            /\ UNCHANGED <<panicked, pushed, layermap_vars, scrub_vars>>

\* TenantObjectListing::get_orphans.
GetOrphans == /\ ~panicked
              /\ ncalls < MaxCalls
              /\ orphans_ret' = GetOrphansResult(shard_timelines)
              /\ shard_timelines' = IndexAfterGetOrphans(shard_timelines)
              /\ check_ref_ret' = FALSE
              /\ call' = [NoCall EXCEPT !.op = "get_orphans", !.prev_op = call.op]
              /\ ncalls' = ncalls + 1
              /\ UNCHANGED <<panicked, pushed, marked, phase, layermap_vars, scrub_vars>>

IndexNext == Push \/ CheckRef \/ GetOrphans

SpecIndex == IndexInit /\ [][IndexNext]_vars

\* ---------------------------------------------------------------------------
\* check_valid_layermap
\* ---------------------------------------------------------------------------
\* Option<String>: None, or the diagnostic, kept as the values it is formatted
\* from (the layer and the LSNs it intersects with).
None == [some |-> FALSE, layer |-> <<>>, intersects |-> {}]
Some(layer, intersects) == [some |-> TRUE, layer |-> <<layer>>, intersects |-> intersects]

\* Mutant: the key range test is left out, every delta layer is kept.
IsDelta(name) == name.kind = "Delta"

\* Whether the first loop of check_valid_layermap keeps the layer name: a
\* delta layer whose key range holds more than one key.
IsMultiKeyDelta(name) == name.kind = "Delta" /\ KeyNext(name.key_range.start) # name.key_range.end

\* The values the vector all_delta_layers can take for the map m: the first
\* loop pushes the kept layer names in the iteration order of the hash map,
\* which is unspecified.
AllDeltaLayers(m) == Enumerations({name \in m : IsMultiKeyDelta(name)})

\* Mutant: only the start of each LSN range is inserted.
LsnSplitPointStarts(layers) == {layers[i].lsn_range.start : i \in DOMAIN layers}

\* The set lsn_split_point built from all_delta_layers.
LsnSplitPoint(layers) == UNION {{layers[i].lsn_range.start, layers[i].lsn_range.end} : i \in DOMAIN layers}

\* Mutant: the range includes its end point.
SplitPointsInRangeInclusive(points, lsn_range) == {p \in points : lsn_range.start <= p /\ p <= lsn_range.end}

\* BTreeSet::range(lsn_range): the points p with start <= p < end.
SplitPointsInRange(points, lsn_range) == {p \in points : lsn_range.start <= p /\ p < lsn_range.end}

\* Mutant: one split point in the range already counts as a violation.
FirstViolationAtLeastOne(layers) == IF layers # <<>> THEN Some(layers[1], SplitPointsInRange(LsnSplitPoint(layers), layers[1].lsn_range)) ELSE None

\* Mutant: the loop returns after looking at its first layer.
FirstViolationFirstOnly(layers) == IF layers # <<>> /\ Cardinality(SplitPointsInRange(LsnSplitPoint(layers), layers[1].lsn_range)) > 1 THEN Some(layers[1], SplitPointsInRange(LsnSplitPoint(layers), layers[1].lsn_range)) ELSE None

\* The third loop of check_valid_layermap: the first layer of all_delta_layers
\* with more than one split point in its LSN range, if any.
FirstViolation(layers) ==
    LET points == LsnSplitPoint(layers)
        bad == {i \in DOMAIN layers : Cardinality(SplitPointsInRange(points, layers[i].lsn_range)) > 1}
        first == CHOOSE j \in bad : \A k \in bad : j <= k
    IN IF bad = {} THEN None ELSE Some(layers[first], SplitPointsInRange(points, layers[first].lsn_range))

\* The values check_valid_layermap(m) can return.
CheckValidLayermapResults(m) == {FirstViolation(layers) : layers \in AllDeltaLayers(m)}

LayerMapInit == /\ metadata = {}
                /\ all_delta_layers = <<>>
                /\ result = None
                /\ lm_pc = "load"
                /\ IndexEmpty
                /\ ScrubIdle

\* One entry is added to the layer map of the manifest being loaded.
LoadLayer == /\ lm_pc = "load"
             /\ Cardinality(metadata) < MaxLayers
             /\ \E name \in LayerName \ metadata : metadata' = metadata \cup {name}
             /\ UNCHANGED <<all_delta_layers, result, lm_pc, index_vars, scrub_vars>>

\* check_valid_layermap(&index_part.layer_metadata); the hash map yields its
\* entries in an unspecified order.
CheckValidLayermap == /\ lm_pc = "load"
                      /\ \E layers \in AllDeltaLayers(metadata) :
                           /\ all_delta_layers' = layers
                           /\ result' = FirstViolation(layers)
                      /\ lm_pc' = "checked"
                      /\ UNCHANGED <<metadata, index_vars, scrub_vars>>

LayerMapNext == LoadLayer \/ CheckValidLayermap

SpecLayerMap == LayerMapInit /\ [][LayerMapNext]_vars

\* ---------------------------------------------------------------------------
\* branch_cleanup_and_check_errors
\* ---------------------------------------------------------------------------
\* LayerMap::is_l0: a delta layer that covers the whole key space.
IsL0(key_range, is_delta) == is_delta /\ key_range = [start |-> 0, end |-> 3]

\* remote_layer_path: the path of one layer object, by the parts it is built
\* from.
RemoteLayerPath(timeline_id, shard, layer, generation) == [timeline_id |-> timeline_id, shard |-> shard, layer |-> layer, generation |-> generation]

\* `k.key.to_string()` of a listed object.
KeyToString(obj) == <<obj.prefix_ok, obj.stem, obj.layer, obj.suffix, obj.gen>>

\* format!("parse error: {error}").
ParseError(error) == [error EXCEPT !.prefix = "parse error: "]

\* Mutant: a branch found in the console is reported without a record of it.
BranchErrorsOnLookup(s3_active_branch, console_branch) == IF s3_active_branch \/ console_branch THEN <<PlainMessage("Timeline has deleted branch data in the console")>> ELSE <<>>

\* Mutant: a branch found in the console is no inconsistency.
BranchErrorsWhenMissing(s3_active_branch, console_branch) == IF s3_active_branch /\ ~console_branch THEN <<PlainMessage("Timeline has no branch data in the console")>> ELSE <<>>

\* The errors pushed by lines 113-127.
BranchErrors(s3_active_branch, console_branch) ==
    IF s3_active_branch
    THEN IF console_branch THEN <<PlainMessage("Timeline has deleted branch data in the console")>>
         ELSE <<PlainMessage("Timeline has no branch data in the console")>>
    ELSE <<>>

\* Mutant: an empty layer map is an error whether or not there is an ancestor.
IndexPartErrorsAnyAncestor(index_part, lm) ==
    (IF index_part.version \notin KNOWN_VERSIONS THEN <<PlainMessage("index_part.json version")>> ELSE <<>>)
    \o (IF index_part.disk_consistent_lsn # index_part.duplicated_disk_consistent_lsn THEN <<PlainMessage("Mismatching disk_consistent_lsn")>> ELSE <<>>)
    \o (IF DOMAIN index_part.layer_metadata = {} THEN <<PlainMessage("index_part.json has no layers (ancestor_timeline=None)")>> ELSE <<>>)
    \o (IF lm.some THEN <<Message("index_part.json contains invalid layer map structure", <<>>, lm.layer, <<>>)>> ELSE <<>>)

\* The errors pushed by lines 141-184 for a parsed manifest, when
\* check_valid_layermap returns lm.
IndexPartErrors(index_part, lm) ==
    (IF index_part.version \notin KNOWN_VERSIONS THEN <<PlainMessage("index_part.json version")>> ELSE <<>>)
    \o (IF index_part.disk_consistent_lsn # index_part.duplicated_disk_consistent_lsn THEN <<PlainMessage("Mismatching disk_consistent_lsn")>> ELSE <<>>)
    \o (IF DOMAIN index_part.layer_metadata = {} /\ index_part.ancestor_timeline = <<>> THEN <<PlainMessage("index_part.json has no layers (ancestor_timeline=None)")>> ELSE <<>>)
    \o (IF lm.some THEN <<Message("index_part.json contains invalid layer map structure", <<>>, lm.layer, <<>>)>> ELSE <<>>)

\* The errors in `result` when the layer loop is reached, or at the return
\* for data that has no layer loop.
ErrorsBeforeLayers(s3_active_branch, console_branch, s3_data, lm) ==
    BranchErrors(s3_active_branch, console_branch)
    \o (IF s3_data = <<>> THEN <<PlainMessage("Timeline has no data on S3 at all")>>
        ELSE IF s3_data[1].blob_data.tag = "Parsed" THEN IndexPartErrors(s3_data[1].blob_data.index_part[1], lm)
        ELSE IF s3_data[1].blob_data.tag = "Incorrect" THEN [i \in DOMAIN s3_data[1].blob_data.errors |-> ParseError(s3_data[1].blob_data.errors[i])]
        ELSE <<>>)

\* The layer map of the manifest in s3_data, empty for data without one.
LayerMetadataOf(s3_data) == IF s3_data # <<>> /\ s3_data[1].blob_data.tag = "Parsed" THEN s3_data[1].blob_data.index_part[1].layer_metadata ELSE <<>>

\* The message of lines 212-218 and the one of lines 188-190.
MissingLayerMessage(layer, md) == Message("index_part.json contains a layer that is not present in remote storage", <<>>, <<layer>>, <<md>>)
ZeroSizeMessage(layer) == Message("index_part.json contains a layer that has 0 size in its layer metadata", <<>>, <<layer>>, <<>>)

\* Mutant: a missing layer is reported as an error whatever its shape.
MissingLayerWarningsNever(layer, md, found, present) == <<>>

\* The warnings one pass of the layer loop pushes, when check_ref returned
\* `found` and head_object found the object iff `present`.
MissingLayerWarnings(layer, md, found, present) == IF ~found /\ ~present /\ IsL0(layer.key_range, layer.kind = "Delta") THEN <<MissingLayerMessage(layer, md)>> ELSE <<>>

\* Mutant: a layer is reported missing without asking the index.
MissingLayerErrorsUnindexed(layer, md, found, present) == IF ~present /\ ~IsL0(layer.key_range, layer.kind = "Delta") THEN <<MissingLayerMessage(layer, md)>> ELSE <<>>

\* The missing-layer errors one pass of the layer loop pushes.
MissingLayerErrors(layer, md, found, present) == IF ~found /\ ~present /\ ~IsL0(layer.key_range, layer.kind = "Delta") THEN <<MissingLayerMessage(layer, md)>> ELSE <<>>

\* Lines 109-184: the call starts, runs the branch check, takes the unknown
\* keys as garbage and checks the manifest up to the layer loop.
AnalysisStart(p, id, s3_active_branch, console_branch, s3_data) ==
    /\ an[p].pc = "idle"
    /\ \E lm \in CheckValidLayermapResults(DOMAIN LayerMetadataOf(s3_data)) :
         an' = [an EXCEPT ![p] = [pc |-> IF DOMAIN LayerMetadataOf(s3_data) = {} THEN "done" ELSE "layers",
                                  id |-> id,
                                  s3_active_branch |-> s3_active_branch,
                                  console_branch |-> console_branch,
                                  s3_data |-> s3_data,
                                  todo |-> DOMAIN LayerMetadataOf(s3_data),
                                  errors |-> ErrorsBeforeLayers(s3_active_branch, console_branch, s3_data, lm),
                                  warnings |-> <<>>,
                                  garbage_keys |-> IF s3_data = <<>> THEN <<>> ELSE [i \in DOMAIN s3_data[1].unknown_keys |-> KeyToString(s3_data[1].unknown_keys[i])],
                                  checked |-> {},
                                  probed |-> {}]]

\* Lines 186-227: one pass of the layer loop, for a layer the hash map
\* yields next. head_object finds the object or does not.
AnalysisLayer(p) ==
    /\ an[p].pc = "layers"
    /\ \E layer \in an[p].todo, present \in BOOLEAN :
         LET md == LayerMetadataOf(an[p].s3_data)[layer]
             found == CheckRefFound(shard_timelines, an[p].id.timeline_id, layer, md)
         IN /\ shard_timelines' = CheckRefUpdate(shard_timelines, an[p].id.timeline_id, layer, md)
            /\ an' = [an EXCEPT ![p].todo = @ \ {layer},
                                ![p].pc = IF an[p].todo = {layer} THEN "done" ELSE "layers",
                                ![p].errors = @ \o (IF md.file_size = 0 THEN <<ZeroSizeMessage(layer)>> ELSE <<>>) \o MissingLayerErrors(layer, md, found, present),
                                ![p].warnings = @ \o MissingLayerWarnings(layer, md, found, present),
                                ![p].checked = @ \cup {[layer |-> layer, md |-> md, found |-> found]},
                                ![p].probed = @ \cup (IF found THEN {} ELSE {[path |-> RemoteLayerPath(an[p].id.timeline_id, md.shard, layer, md.generation), present |-> present]})]
    /\ UNCHANGED <<panicked, call, check_ref_ret, orphans_ret, ncalls, pushed, marked, phase, layermap_vars, listing, blobs, trace>>

\* TimelineAnalysis::is_healthy.
IsHealthy(a) == a.errors = <<>> /\ a.warnings = <<>>

\* ---------------------------------------------------------------------------
\* One timeline: list_timeline_blobs, then branch_cleanup_and_check_errors on
\* the data it returned.
\* ---------------------------------------------------------------------------
ListTimelineBlobs ==
    /\ blobs.ret = "none"
    /\ \E objs \in BucketListings :
         \E stream \in Enumerations(objs), outcome \in DownloadOutcomes :
            /\ listing' = stream
            /\ blobs' = ListTimelineBlobsResult(stream, outcome)
            /\ trace' = ListTimelineBlobsTrace(stream, outcome)
    /\ UNCHANGED <<index_vars, layermap_vars, an>>

ScrubTimeline ==
    /\ blobs.ret = "Ok"
    /\ an[1].pc = "idle"
    /\ \E s3_active_branch \in BOOLEAN, console_branch \in BOOLEAN :
         AnalysisStart(1, AnIdle.id, s3_active_branch, console_branch, <<blobs.data>>)
    /\ UNCHANGED <<index_vars, layermap_vars, listing, blobs, trace>>

ScrubInit == IndexEmpty /\ LayerMapIdle /\ ScrubIdle
ScrubNext == ListTimelineBlobs \/ ScrubTimeline \/ AnalysisLayer(1)
SpecScrub == ScrubInit /\ [][ScrubNext]_vars

\* ---------------------------------------------------------------------------
\* One analysis on an index the listings of the tenant have filled
\* ---------------------------------------------------------------------------
\* The listing pushed for a shard-timeline of the tenant: the delta layer and
\* the image layer, both without a generation.
PushedListing == {k \in ListedObjects : k[2] = GenerationNone}
\* The shard-timelines that may have been listed and pushed.
PushedIds == {id \in TenantShardTimelineId : id.shard_number = 0 \/ id.timeline_id = "t1"}
\* The index after push(id, PushedListing) for every id of ids.
IndexOfPushes(ids) == [k \in {<<ShardIndexNew(id.shard_number, id.shard_count), id.timeline_id>> : id \in ids} |-> [l \in PushedListing |-> LayerRefDefault]]

\* The shard-timelines analysed: the two shards of timeline t1.
AnalysedIds == {id \in TenantShardTimelineId : id.timeline_id = "t1"}

\* The values of s3_data the analysis is given.
AnalysisData ==
    {<<>>, <<RemoteTimelineBlobData(Relic, <<>>, <<>>)>>}
    \cup {<<RemoteTimelineBlobData(Incorrect(<<PlainMessage("S3 list response got no index_part.json file")>>, {}), <<>>, <<ListingObject(TRUE, "junk", <<>>, "none", GenerationNone)>>)>>}
    \cup {<<RemoteTimelineBlobData(Parsed(ip, GenerationNone, {}), <<>>, <<>>)>> : ip \in AnalysedIndexParts}

\* The index holds the pushes of phase 1, every count zero, no analysis has
\* started.
AnalysisInit ==
    /\ \E ids \in SUBSET PushedIds :
          /\ shard_timelines = IndexOfPushes(ids)
          /\ pushed = {[shard |-> ShardIndexNew(id.shard_number, id.shard_count), timeline_id |-> id.timeline_id, layers |-> PushedListing] : id \in ids}
          /\ ncalls = Cardinality(ids)
    /\ panicked = FALSE
    /\ call = NoCall
    /\ check_ref_ret = FALSE
    /\ orphans_ret = <<>>
    /\ marked = {}
    /\ phase = "listing"
    /\ LayerMapIdle
    /\ ScrubIdle

\* branch_cleanup_and_check_errors is called for one shard-timeline.
AnalyzeTimeline ==
    /\ an[1].pc = "idle"
    /\ \E id \in AnalysedIds, s3_active_branch \in BOOLEAN, console_branch \in BOOLEAN, s3_data \in AnalysisData :
         AnalysisStart(1, id, s3_active_branch, console_branch, s3_data)
    /\ UNCHANGED <<index_vars, layermap_vars, listing, blobs, trace>>

AnalysisNext == AnalyzeTimeline \/ AnalysisLayer(1)
SpecAnalysis == AnalysisInit /\ [][AnalysisNext]_vars

\* ---------------------------------------------------------------------------
\* The analyses of two shard-timelines of one tenant, side by side, on the
\* index the listings have filled; get_orphans once both have ended
\* ---------------------------------------------------------------------------
\* The manifests of the two analyses: the plain header, any of the listed
\* layers, each with a size and under either shard and generation.
TenantIndexParts == {ip \in IndexPart : PlainHeader(ip) /\ \A l \in DOMAIN ip.layer_metadata : l \in ListedLayerNames /\ ip.layer_metadata[l].file_size = 1}
\* Analysis p is the one of shard p - 1 of timeline t1.
TenantId(p) == [shard_number |-> p - 1, shard_count |-> 2, timeline_id |-> "t1"]

AnalyzeTenantTimeline(p) ==
    /\ an[p].pc = "idle"
    /\ \E ip \in TenantIndexParts :
         AnalysisStart(p, TenantId(p), FALSE, FALSE, <<RemoteTimelineBlobData(Parsed(ip, GenerationNone, {}), <<>>, <<>>)>>)
    /\ UNCHANGED <<index_vars, layermap_vars, listing, blobs, trace>>

\* get_orphans, called when every analysis has returned.
TenantGetOrphans ==
    /\ \A p \in Procs : an[p].pc = "done"
    /\ call.op = "none"
    /\ orphans_ret' = GetOrphansResult(shard_timelines)
    /\ shard_timelines' = IndexAfterGetOrphans(shard_timelines)
    /\ call' = [NoCall EXCEPT !.op = "get_orphans", !.prev_op = call.op]
    /\ UNCHANGED <<panicked, check_ref_ret, ncalls, pushed, marked, phase, layermap_vars, scrub_vars>>

TenantNext == (\E p \in Procs : AnalyzeTenantTimeline(p) \/ AnalysisLayer(p)) \/ TenantGetOrphans
SpecTenant == AnalysisInit /\ [][TenantNext]_vars

\* ---------------------------------------------------------------------------
\* Properties of TenantObjectListing
\* ---------------------------------------------------------------------------
\* The entry a check_ref call record names.
CallEntry(c) == <<c.shard, c.timeline_id, c.layer, c.generation>>
\* The reference count of entry e in index st.
RefCount(st, e) == st[<<e[1], e[2]>>][<<e[3], e[4]>>].ref_count
\* The entries present in index st.
Entries(st) == UNION {{<<k[1], k[2], l[1], l[2]>> : l \in DOMAIN st[k]} : k \in DOMAIN st}

\* C1: when every push came before every check_ref call, get_orphans returns
\* exactly the pushed entries for which no check_ref call returned true, each
\* once: every zero-count entry, no entry with a count of 1 or more, nothing
\* that was never pushed.
C1_OrphansExact ==
    (call.op = "get_orphans" /\ phase # "mixed") =>
        /\ BagToSet(orphans_ret) = PushedEntries \ marked
        /\ \A e \in DOMAIN orphans_ret : orphans_ret[e] = 1
        /\ \A e \in PushedEntries : (e \in BagToSet(orphans_ret)) <=> (RefCount(shard_timelines, e) = 0)

\* C1 witness: one push of two layers, two successful marks of the first, and
\* get_orphans returning exactly the second.
C1_Witness == /\ call.op = "get_orphans"
              /\ phase = "checking"
              /\ Cardinality(pushed) = 1
              /\ Cardinality(PushedEntries) = 2
              /\ \E e \in marked : RefCount(shard_timelines, e) = 2 /\ BagToSet(orphans_ret) = PushedEntries \ {e}

\* C2: check_ref returns true exactly when the entry (metadata.shard, timeline,
\* layer, metadata.generation) was pushed; when it returns true that entry's
\* count grows by exactly 1 and every other entry keeps its count.
C2_CheckRefStep ==
    (call'.op = "check_ref" /\ ncalls' = ncalls + 1) =>
        /\ check_ref_ret' = (CallEntry(call') \in PushedEntries)
        /\ check_ref_ret' =>
              (/\ Entries(shard_timelines') = Entries(shard_timelines)
               /\ DOMAIN shard_timelines' = DOMAIN shard_timelines
               /\ RefCount(shard_timelines', CallEntry(call')) = RefCount(shard_timelines, CallEntry(call')) + 1
               /\ \A e \in Entries(shard_timelines) \ {CallEntry(call')} : RefCount(shard_timelines', e) = RefCount(shard_timelines, e))
C2_CheckRef == [][C2_CheckRefStep]_vars

\* C2 witness: a check_ref call returned true while the index holds another
\* entry of the same sub-map and an entry of another shard-timeline.
C2_Witness == /\ call.op = "check_ref"
              /\ check_ref_ret
              /\ RefCount(shard_timelines, CallEntry(call)) = 1
              /\ \E e \in Entries(shard_timelines) : e[1] = call.shard /\ e[2] = call.timeline_id /\ e # CallEntry(call)
              /\ \E e \in Entries(shard_timelines) : <<e[1], e[2]>> # <<call.shard, call.timeline_id>>

\* C3: a check_ref call that returns false leaves the index unchanged: no
\* sub-map or entry is created and no count changes.
C3_FalseStep ==
    (call'.op = "check_ref" /\ ncalls' = ncalls + 1 /\ ~check_ref_ret') => (shard_timelines' = shard_timelines)
C3_FalseLeavesIndex == [][C3_FalseStep]_vars

\* C3 witness: check_ref returned false for a layer that the pushed sub-map
\* lists under a different generation only.
C3_Witness == /\ call.op = "check_ref"
              /\ ~check_ref_ret
              /\ <<call.shard, call.timeline_id>> \in DOMAIN shard_timelines
              /\ \E g \in Generation \ {call.generation} : <<call.layer, g>> \in DOMAIN shard_timelines[<<call.shard, call.timeline_id>>]

\* C4: a push fails its assertion exactly when its shard-timeline was pushed
\* before, whatever layer set it carries; a push for a shard-timeline not yet
\* pushed never fails.
C4_PushStep ==
    (call'.op = "push" /\ ncalls' = ncalls + 1) => (panicked' <=> (<<call'.shard, call'.timeline_id>> \in PushedShardTimelines))
C4_SecondPushRejected == [][C4_PushStep]_vars

\* C4 witness: a second push carrying the empty layer set failed after a
\* first push of a non-empty set, with another shard-timeline pushed between.
C4_Witness == /\ panicked
              /\ call.op = "push"
              /\ call.layers = {}
              /\ \E p \in pushed : p.shard = call.shard /\ p.timeline_id = call.timeline_id /\ p.layers # {}
              /\ \E p \in pushed : <<p.shard, p.timeline_id>> # <<call.shard, call.timeline_id>>

\* C5: while no push has failed its assertion, every step keeps every
\* sub-map and every entry and leaves each reference count at least as large
\* as it was; a pushed entry starts at 0.
C5_MonotoneStep ==
    ~panicked' =>
        /\ DOMAIN shard_timelines \subseteq DOMAIN shard_timelines'
        /\ Entries(shard_timelines) \subseteq Entries(shard_timelines')
        /\ \A e \in Entries(shard_timelines) : RefCount(shard_timelines', e) >= RefCount(shard_timelines, e)
        /\ \A e \in Entries(shard_timelines') \ Entries(shard_timelines) : RefCount(shard_timelines', e) = 0
C6_OrphansStep ==
    (call'.op = "get_orphans" /\ ncalls' = ncalls + 1) =>
        /\ shard_timelines' = shard_timelines
        /\ (call.op = "get_orphans") => (BagToSet(orphans_ret') = BagToSet(orphans_ret))
C6_OrphansIdempotent == [][C6_OrphansStep]_vars

\* C6 witness: two get_orphans calls in a row on an index with an orphan and
\* a referenced entry.
C6_Witness == /\ call.op = "get_orphans"
              /\ call.prev_op = "get_orphans"
              /\ BagToSet(orphans_ret) # {}
              /\ marked # {}

\* ---------------------------------------------------------------------------
\* Properties of check_valid_layermap
\* ---------------------------------------------------------------------------
\* Two half-open LSN ranges share an LSN.
Overlap(r1, r2) == r1.start < r2.end /\ r2.start < r1.end
IsSingleKey(name) == KeyNext(name.key_range.start) = name.key_range.end
Deltas(m) == {n \in m : n.kind = "Delta"}
MultiKeyDeltas(m) == {n \in Deltas(m) : ~IsSingleKey(n)}
SingleKeyDeltas(m) == {n \in Deltas(m) : IsSingleKey(n)}
\* The multi-key delta layers of m whose LSN range holds the start or end of
\* a multi-key delta layer of m strictly inside.
Straddlers(m) == {n \in MultiKeyDeltas(m) : \E o \in MultiKeyDeltas(m) : \E p \in {o.lsn_range.start, o.lsn_range.end} : n.lsn_range.start < p /\ p < n.lsn_range.end}

\* C7 as claimed: an accepted layer map has no two distinct delta layers with
\* overlapping LSN ranges unless one of the two covers a single key.
C7_Claimed ==
    (lm_pc = "checked" /\ ~result.some) =>
        \A a \in Deltas(metadata), b \in Deltas(metadata) :
            (a # b /\ Overlap(a.lsn_range, b.lsn_range)) => (IsSingleKey(a) \/ IsSingleKey(b))

\* C7 amended: an accepted layer map has no two distinct delta layers with
\* overlapping LSN ranges unless one of the two covers a single key or the
\* two LSN ranges are identical.
C7_OverlapOnlyIfSingleKeyOrSameRange ==
    (lm_pc = "checked" /\ ~result.some) =>
        \A a \in Deltas(metadata), b \in Deltas(metadata) :
            (a # b /\ Overlap(a.lsn_range, b.lsn_range)) => (IsSingleKey(a) \/ IsSingleKey(b) \/ a.lsn_range = b.lsn_range)

\* C7 witness: an accepted map with two multi-key delta layers of the same
\* LSN range next to a single-key delta layer that overlaps them.
C7_Witness ==
    /\ lm_pc = "checked"
    /\ ~result.some
    /\ \E a \in MultiKeyDeltas(metadata), b \in MultiKeyDeltas(metadata) : a # b /\ a.lsn_range = b.lsn_range
    /\ \E a \in MultiKeyDeltas(metadata), b \in SingleKeyDeltas(metadata) : Overlap(a.lsn_range, b.lsn_range) /\ a.lsn_range # b.lsn_range

\* C8: a single-key delta layer is never the layer named in a violation and
\* is not in all_delta_layers, so it adds no split point; the map with any of
\* its single-key delta layers taken out gets the same None/violation outcome.
C8_SingleKeyExempt ==
    (lm_pc = "checked") =>
        /\ \A i \in DOMAIN result.layer : ~IsSingleKey(result.layer[i])
        /\ \A i \in DOMAIN all_delta_layers : ~IsSingleKey(all_delta_layers[i])
        /\ result.intersects \subseteq UNION {{n.lsn_range.start, n.lsn_range.end} : n \in MultiKeyDeltas(metadata)}
        /\ \A S \in SUBSET SingleKeyDeltas(metadata) : \A r \in CheckValidLayermapResults(metadata \ S) : r.some = result.some

\* C8 witness: an accepted map in which a single-key delta layer has an LSN
\* range that partly overlaps the LSN range of a multi-key delta layer.
C8_Witness ==
    /\ lm_pc = "checked"
    /\ ~result.some
    /\ \E a \in MultiKeyDeltas(metadata), b \in SingleKeyDeltas(metadata) : a.lsn_range.start < b.lsn_range.start /\ b.lsn_range.start < a.lsn_range.end /\ a.lsn_range.end < b.lsn_range.end

\* C9: a layer map whose delta layers have pairwise disjoint or touching LSN
\* ranges is accepted.
C9_DisjointAccepted ==
    (lm_pc = "checked" /\ \A a \in Deltas(metadata), b \in Deltas(metadata) : a # b => ~Overlap(a.lsn_range, b.lsn_range)) => ~result.some

\* C9 witness: an accepted map of three multi-key delta layers, each touching
\* the next.
C9_Witness ==
    /\ lm_pc = "checked"
    /\ ~result.some
    /\ Cardinality(MultiKeyDeltas(metadata)) = 3
    /\ \A a \in Deltas(metadata), b \in Deltas(metadata) : a # b => ~Overlap(a.lsn_range, b.lsn_range)
    /\ \E a \in Deltas(metadata), b \in Deltas(metadata) : a.lsn_range.end = b.lsn_range.start

\* C10 as claimed: every iteration order of the map gives the same result,
\* the named layer included.
C10_Claimed ==
    (lm_pc = "checked") => \A r \in CheckValidLayermapResults(metadata) : r = result

\* C10 amended: every iteration order of the map gives the same
\* None/violation outcome; a violation names one of the multi-key delta layers
\* that hold a split point strictly inside their LSN range, with the split
\* points of that layer's range, and which of them depends on the order.
C10_SameOutcomeAnyOrder ==
    (lm_pc = "checked") =>
        /\ \A r \in CheckValidLayermapResults(metadata) : r.some = result.some
        /\ \A i \in DOMAIN result.layer :
              /\ result.layer[i] \in Straddlers(metadata)
              /\ result.intersects = SplitPointsInRange(LsnSplitPoint(all_delta_layers), result.layer[i].lsn_range)

\* C10 witness: a violation was returned and another iteration order names a
\* different layer.
C10_Witness ==
    /\ lm_pc = "checked"
    /\ result.some
    /\ \E r \in CheckValidLayermapResults(metadata) : r.layer # result.layer

\* C18: check_valid_layermap returns a violation exactly when some multi-key
\* delta layer has the start or end of a multi-key delta layer strictly inside
\* its LSN range, and the layer it names is such a layer; for three multi-key
\* layers with LSN ranges [a,c), [a,b), [b,c) it names the [a,c) layer.
C18_ViolationIffStraddler ==
    (lm_pc = "checked") =>
        /\ result.some <=> (Straddlers(metadata) # {})
        /\ \A i \in DOMAIN result.layer : result.layer[i] \in Straddlers(metadata)
        /\ \A A \in metadata, B \in metadata, C \in metadata :
              (/\ MultiKeyDeltas(metadata) = {A, B, C}
               /\ A.lsn_range.start = B.lsn_range.start /\ B.lsn_range.end = C.lsn_range.start /\ C.lsn_range.end = A.lsn_range.end) => (result.layer = <<A>>)

\* C18 witness: the map of three delta layers over the same multi-key range
\* with LSN ranges [0,2), [0,1), [1,2), and a violation naming the first.
C18_Witness ==
    /\ lm_pc = "checked"
    /\ Cardinality(metadata) = 3
    /\ \E A \in metadata, B \in metadata, C \in metadata :
          /\ MultiKeyDeltas(metadata) = {A, B, C}
          /\ A.key_range = B.key_range /\ B.key_range = C.key_range
          /\ A.lsn_range = [start |-> 0, end |-> 2] /\ B.lsn_range = [start |-> 0, end |-> 1] /\ C.lsn_range = [start |-> 1, end |-> 2]
          /\ result = Some(A, {0, 1})

\* ---------------------------------------------------------------------------
\* Manifest selection and the results of list_timeline_blobs
\* ---------------------------------------------------------------------------
\* The manifest candidates of the listing, and those named with a generation.
Candidates == {listing[i] : i \in {j \in DOMAIN listing : listing[j].prefix_ok /\ listing[j].stem = "index_part.json"}}
GenerationCandidates == {c \in Candidates : c.suffix = "gen"}
IsParsed == blobs.ret = "Ok" /\ blobs.data.blob_data.tag = "Parsed"
IsRelic == blobs.ret = "Ok" /\ blobs.data.blob_data.tag = "Relic"
IsIncorrect == blobs.ret = "Ok" /\ blobs.data.blob_data.tag = "Incorrect"

\* C11: when a candidate's name has a generation, the selected manifest is
\* the candidate of the largest generation and a Parsed result reports that
\* generation; when candidates exist and none has a generation, one of them
\* is selected and a Parsed result reports generation none.
C11_SelectsMaxGeneration ==
    (blobs.ret # "none") =>
        /\ (GenerationCandidates # {}) =>
              (/\ Len(trace.selected) = 1
               /\ trace.selected[1] \in GenerationCandidates
               /\ \A c \in GenerationCandidates : c.gen <= trace.selected[1].gen
               /\ IsParsed => (blobs.data.blob_data.index_part_generation = trace.selected[1].gen))
        /\ (GenerationCandidates = {} /\ Candidates # {}) =>
              (/\ Len(trace.selected) = 1
               /\ trace.selected[1] \in Candidates
               /\ IsParsed => (blobs.data.blob_data.index_part_generation = GenerationNone))

\* Candidates without a generation, of generation 1 and of generation 2 are
\* listed, the one of generation 1 last, and the manifest parsed.
C11_Witness ==
    /\ IsParsed
    /\ {c.suffix : c \in Candidates} = {"none", "gen"}
    /\ {c.gen : c \in GenerationCandidates} = {1, 2}
    /\ listing[Len(listing)].gen = 1
    /\ blobs.data.blob_data.index_part_generation = 2

\* The messages of the errors of an Incorrect result.
IncorrectMessages == {blobs.data.blob_data.errors[i].msg : i \in DOMAIN blobs.data.blob_data.errors}

\* C19: an Incorrect result has at least one error; a listing with no
\* manifest candidate that is not a Relic gives Incorrect with the error
\* 'no index_part.json file', and a manifest body that fails to parse gives
\* Incorrect with the body parsing error.
C19_IncorrectHasErrors ==
    /\ IsIncorrect => (blobs.data.blob_data.errors # <<>>)
    /\ (blobs.ret # "none" /\ ~IsRelic /\ Candidates = {}) => (IsIncorrect /\ "S3 list response got no index_part.json file" \in IncorrectMessages)
    /\ (trace.body = "parse_error") => (IsIncorrect /\ "index_part.json body parsing error" \in IncorrectMessages)

\* Only layer objects are listed: the result is Incorrect and its one error
\* is the missing manifest.
C19_Witness ==
    /\ IsIncorrect
    /\ listing # <<>>
    /\ Candidates = {}
    /\ blobs.data.blob_data.s3_layers # {}
    /\ Len(blobs.data.blob_data.errors) = 1

\* The listed objects, and those that parse as a layer name.
ListedSet == {listing[i] : i \in DOMAIN listing}
ParseableLayers == {o \in ListedSet : IsLayerCandidate(o) /\ ParseLayerObjectName(o).ok}
\* The listing of a deleted timeline: no manifest candidate, no parseable
\* layer, the initdb archive.
RelicListing == /\ blobs.ret # "none"
                /\ Candidates = {}
                /\ ParseableLayers = {}
                /\ \E o \in ListedSet : o.prefix_ok /\ o.stem = "initdb.tar.zst"
Analysed == an[1].pc = "done"

\* C12 as stated: the analysis of a Relic result has no error and no warning.
C12_Claimed ==
    (RelicListing /\ Analysed) => (IsRelic /\ trace.downloaded = {} /\ an[1].errors = <<>> /\ an[1].warnings = <<>>)

\* C12: such a listing gives Relic and nothing is downloaded; the analysis
\* of the result has no warning, and its errors are exactly the one error of
\* the branch check when an active-branch record was passed, none otherwise.
C12_RelicOnlyBranchError ==
    /\ RelicListing => (IsRelic /\ trace.downloaded = {} /\ trace.body = "none")
    /\ (RelicListing /\ Analysed) =>
          (/\ an[1].warnings = <<>>
           /\ ~an[1].s3_active_branch => (an[1].errors = <<>>)
           /\ an[1].s3_active_branch => (Len(an[1].errors) = 1 /\ an[1].errors[1].msg \in {"Timeline has deleted branch data in the console", "Timeline has no branch data in the console"}))

\* A Relic listing analysed with no active-branch record: a clean verdict.
C12_Witness ==
    /\ RelicListing
    /\ Analysed
    /\ ~an[1].s3_active_branch
    /\ IsHealthy(an[1])

\* The keys in garbage_keys of the timeline's analysis.
GarbageKeys == {an[1].garbage_keys[i] : i \in DOMAIN an[1].garbage_keys}

\* C13: once the listing's result is analysed, every listed object that is
\* no manifest candidate, no archive marker and no parseable layer name, or
\* that does not match the timeline prefix, has its key in garbage_keys,
\* whether the result is Parsed, Relic or Incorrect.
C13_UnknownKeysAreGarbage ==
    (blobs.ret = "Ok" /\ Analysed) => (\A o \in ListedSet : IsUnknownKey(o) => (KeyToString(o) \in GarbageKeys))

\* ---------------------------------------------------------------------------
\* Findings of the analysis
\* ---------------------------------------------------------------------------
\* How many messages of seq are the message msg about the layer.
CountAbout(seq, msg, layer) == Cardinality({i \in DOMAIN seq : seq[i].msg = msg /\ seq[i].layer = <<layer>>})
MissingErrors(layer) == CountAbout(an[1].errors, "index_part.json contains a layer that is not present in remote storage", layer)
MissingWarnings(layer) == CountAbout(an[1].warnings, "index_part.json contains a layer that is not present in remote storage", layer)
\* The probe the analysis made for a checked layer, with the answer it got.
ProbeOf(c, present) == [path |-> [timeline_id |-> an[1].id.timeline_id, shard |-> c.md.shard, layer |-> c.layer, generation |-> c.md.generation], present |-> present]
\* The passes of the layer loop in which the layer was found neither in the
\* index nor by the probe.
Missing == {c \in an[1].checked : ~c.found /\ ProbeOf(c, FALSE) \in an[1].probed}
LayerIsL0(layer) == layer.kind = "Delta" /\ layer.key_range.start = 0 /\ layer.key_range.end = 3

AnalysedParsed == an[1].pc # "idle" /\ an[1].s3_data # <<>> /\ an[1].s3_data[1].blob_data.tag = "Parsed"
AnalysedIndexPart == an[1].s3_data[1].blob_data.index_part[1]
NoLayersErrors == Cardinality({i \in DOMAIN an[1].errors : an[1].errors[i].msg = "index_part.json has no layers (ancestor_timeline=None)"})

\* C15: the analysis of a Parsed manifest with an empty layer map has the
\* 'no layers' error, once, exactly when the manifest has no ancestor
\* timeline; with an ancestor the empty layer map adds no error and no
\* warning, so a manifest that passes the header checks, analysed without an
\* active-branch record, is healthy.
C15_NoLayersErrorIffNoAncestor ==
    (AnalysedParsed /\ DOMAIN AnalysedIndexPart.layer_metadata = {}) =>
        /\ Analysed
        /\ (AnalysedIndexPart.ancestor_timeline = <<>>) => (NoLayersErrors = 1)
        /\ (AnalysedIndexPart.ancestor_timeline # <<>>) => (NoLayersErrors = 0 /\ an[1].warnings = <<>>)
        /\ (/\ AnalysedIndexPart.ancestor_timeline # <<>>
            /\ AnalysedIndexPart.version \in KNOWN_VERSIONS
            /\ AnalysedIndexPart.disk_consistent_lsn = AnalysedIndexPart.duplicated_disk_consistent_lsn
            /\ ~an[1].s3_active_branch) => IsHealthy(an[1])

\* An empty manifest with an ancestor was analysed and the verdict is clean.
C15_Witness ==
    /\ AnalysedParsed
    /\ Analysed
    /\ DOMAIN AnalysedIndexPart.layer_metadata = {}
    /\ AnalysedIndexPart.ancestor_timeline # <<>>
    /\ an[1].errors = <<>>

\* The missing-layer findings about a layer, and the probes made for it.
MissingFindings(layer) == MissingErrors(layer) + MissingWarnings(layer)
Probes(c) == {ProbeOf(c, present) : present \in BOOLEAN} \cap an[1].probed

\* C20: there is a missing-layer error or warning about a layer only if
\* check_ref returned false for it and the probe of its path failed; a layer
\* check_ref did not find but the probe found has no finding, and a layer
\* found in the index is not probed and has no finding.
C20_FindingOnlyAfterFailedProbe ==
    /\ \A i \in DOMAIN an[1].errors \cup DOMAIN an[1].warnings, seq \in {an[1].errors, an[1].warnings} :
          (i \in DOMAIN seq /\ seq[i].msg = "index_part.json contains a layer that is not present in remote storage") =>
              (\E c \in Missing : <<c.layer>> = seq[i].layer /\ <<c.md>> = seq[i].md)
    /\ \A c \in an[1].checked :
          /\ c.found => (Probes(c) = {} /\ MissingFindings(c.layer) = 0)
          /\ ~c.found => (Cardinality(Probes(c)) = 1)
          /\ (~c.found /\ ProbeOf(c, TRUE) \in an[1].probed) => (MissingFindings(c.layer) = 0)

\* The analysis ended after one layer was found in the index and another,
\* not in the index, was found by the probe: no finding, one probe.
C20_Witness ==
    /\ Analysed
    /\ \E c \in an[1].checked, d \in an[1].checked : c.found /\ ~d.found /\ ProbeOf(d, TRUE) \in an[1].probed
    /\ Cardinality(an[1].probed) = 1
    /\ IsHealthy(an[1])

\* The sub-map key of the analysed shard-timeline, the sub-maps a step
\* changed, and the passes of the layer loop a step made.
OwnKey == <<[shard_number |-> an[1].id.shard_number, shard_count |-> an[1].id.shard_count], an[1].id.timeline_id>>
ChangedKeys == {k \in DOMAIN shard_timelines : shard_timelines'[k] # shard_timelines[k]}
NewChecks == an'[1].checked \ an[1].checked

\* C16 as stated: an analysis finds and increments entries of the sub-map
\* of its own shard-timeline only.
C16_ClaimedStep ==
    /\ ChangedKeys \subseteq {OwnKey}
    /\ \A c \in NewChecks : c.found => (<<c.md.shard, an[1].id.timeline_id>> = OwnKey)
C16_Claimed == [][C16_ClaimedStep]_vars

\* C16: the analysis of shard-timeline (S, T) adds no sub-map and changes
\* only sub-maps of its timeline T: a pass of the layer loop looks the layer
\* up in the sub-map keyed by the shard of the layer's metadata and T, and
\* changes nothing but the count of that one entry, by one, when it is there.
C16_Step ==
    /\ DOMAIN shard_timelines' = DOMAIN shard_timelines
    /\ \A k \in ChangedKeys :
          /\ k[2] = an[1].id.timeline_id
          /\ \E c \in NewChecks :
                /\ c.found
                /\ k[1] = c.md.shard
                /\ shard_timelines'[k] = [shard_timelines[k] EXCEPT ![<<c.layer, c.md.generation>>].ref_count = @ + 1]
    /\ \A c \in NewChecks : c.found <=> (<<c.md.shard, an[1].id.timeline_id>> \in ChangedKeys)
C16_OwnTimelineOnly == [][C16_Step]_vars

\* The analysis of shard 0 of t1 has counted a reference in the sub-map of
\* shard 1 of t1.
C16_Witness ==
    \E c \in an[1].checked :
        /\ c.found
        /\ an[1].id.shard_number = 0
        /\ c.md.shard.shard_number = 1
        /\ shard_timelines[<<c.md.shard, "t1">>][<<c.layer, c.md.generation>>].ref_count = 1

\* The entries the listings pushed, as (shard, timeline, layer, generation),
\* and for each the analyses whose manifest references it.
TenantEntries == UNION {{<<q.shard, q.timeline_id, l[1], l[2]>> : l \in q.layers} : q \in pushed}
TenantLayers(p) == LayerMetadataOf(an[p].s3_data)
Referrers(e) == {p \in Procs : /\ an[p].id.timeline_id = e[2]
                               /\ e[3] \in DOMAIN TenantLayers(p)
                               /\ TenantLayers(p)[e[3]].shard = e[1]
                               /\ TenantLayers(p)[e[3]].generation = e[4]}
IndexEntries == UNION {{<<k[1], k[2], l[1], l[2]>> : l \in DOMAIN shard_timelines[k]} : k \in DOMAIN shard_timelines}

\* C17: with every push made before the analyses start, once the analyses
\* of the tenant's shard-timelines have ended, in whatever order their
\* check_ref calls ran, the index holds the pushed entries, each with as
\* many references as there are analyses whose manifest names it, every
\* check_ref call returned whether its entry was pushed, and get_orphans
\* returns the pushed entries no manifest names, once each.
C17_SameCountsAnyInterleaving ==
    (\A p \in Procs : an[p].pc = "done") =>
        /\ IndexEntries = TenantEntries
        /\ \A e \in TenantEntries : shard_timelines[<<e[1], e[2]>>][<<e[3], e[4]>>].ref_count = Cardinality(Referrers(e))
        /\ \A p \in Procs : \A c \in an[p].checked : c.found <=> (<<c.md.shard, an[p].id.timeline_id, c.layer, c.md.generation>> \in TenantEntries)
        /\ (call.op = "get_orphans") => (orphans_ret = [e \in {x \in TenantEntries : Referrers(x) = {}} |-> 1])

\* Both analyses have ended, one entry is referenced by both, and get_orphans
\* returned an entry neither references.
C17_Witness ==
    /\ \A p \in Procs : an[p].pc = "done"
    /\ call.op = "get_orphans"
    /\ \E e \in TenantEntries : Referrers(e) = Procs
    /\ orphans_ret # <<>>

\* The branch errors of the analysis, by the result of the console lookup
\* each one reports.
BranchFoundErrors == Cardinality({i \in DOMAIN an[1].errors : an[1].errors[i].msg = "Timeline has deleted branch data in the console"})
BranchMissingErrors == Cardinality({i \in DOMAIN an[1].errors : an[1].errors[i].msg = "Timeline has no branch data in the console"})

\* C21: an analysis given an active-branch record has exactly one branch
\* error, the one for a branch found in the console when the lookup found
\* it and the one for a missing branch when it did not; an analysis given
\* no active-branch record has no branch error, whatever the lookup gave.
C21_OneBranchErrorIffActive ==
    (an[1].pc # "idle") =>
        /\ (an[1].s3_active_branch /\ an[1].console_branch) => (BranchFoundErrors = 1 /\ BranchMissingErrors = 0)
        /\ (an[1].s3_active_branch /\ ~an[1].console_branch) => (BranchFoundErrors = 0 /\ BranchMissingErrors = 1)
        /\ ~an[1].s3_active_branch => (BranchFoundErrors = 0 /\ BranchMissingErrors = 0)

\* A manifest with a missing layer was analysed with an active-branch record
\* the console still has: the branch error comes first, one of two errors.
C21_Witness ==
    /\ Analysed
    /\ an[1].s3_active_branch
    /\ an[1].console_branch
    /\ Len(an[1].errors) = 2
    /\ an[1].errors[1].msg = "Timeline has deleted branch data in the console"
    /\ BranchFoundErrors = 1

====
